---- MODULE Spec2Model ----
(***************************************************************************)
(* Smart Card Payment System (src/main.py, src/utils/sms_utils.py).        *)
(*                                                                         *)
(* The three Mongo collections, the Razorpay order counter and the local   *)
(* variables of each request handler are the state.  Every handler is cut  *)
(* at its database / gateway / provider calls into step operators that     *)
(* map (database, locals) to (database, locals).                           *)
(*                                                                         *)
(*   Spec      one request at a time: an action runs a whole handler       *)
(*   SpecConc  several workers, each handler advancing one call at a time  *)
(***************************************************************************)
EXTENDS Integers, Sequences, FiniteSets, TLC

(* ------------------------------ bounds --------------------------------- *)
MaxAmount == 1
MaxTxns == 2
MaxBalance == 2
InitBalance == 1
InitVendorBalance == 1

Workers == {"w1", "w2"}

StudentIds == {"S1", "SX"}          \* "SX" is in no student record
VendorIds == {"V1", "V2", "VX"}     \* "VX" is in no vendor record
Passwords == {"pw", "PW"}
Phones == {"P1"}
Amounts == 0..MaxAmount
OrderIds == 1..MaxTxns
PaymentIds == {"pay_1"}
Keys == {"key_secret", "forged"}
TwilioOutcomes == {"ok", "error"}
Envs == [razorpay_ok : BOOLEAN, twilio : TwilioOutcomes]

VARIABLES students_collection, vendors_collection, transactions_collection,
          razorpay_orders, proc

vars == <<students_collection, vendors_collection, transactions_collection,
          razorpay_orders, proc>>

(* ------------------------- documents and lookups ----------------------- *)
None == [none |-> TRUE]

\* dict.get(key, default)
Get(doc, key, default) == IF key \in DOMAIN doc THEN doc[key] ELSE default

\* {"$set": {key: v}} on one document
SetField(doc, key, v) ==
    [k \in DOMAIN doc \cup {key} |-> IF k = key THEN v ELSE doc[k]]

\* {"$inc": {key: n}} on one document: a missing field counts as 0
IncField(doc, key, n) == SetField(doc, key, Get(doc, key, 0) + n)

\* collection.find_one({id_field: id}) on a collection keyed by its unique id
find_one(coll, id) == IF id \in DOMAIN coll THEN coll[id] ELSE None

\* collection.update_one / find_one_and_update({id_field: id}, update)
update_one(coll, id, newdoc) ==
    IF id \in DOMAIN coll THEN [coll EXCEPT ![id] = newdoc] ELSE coll

\* the fields of a fetched document that the handler goes on to read
Fields(doc, keys) ==
    IF doc = None THEN None ELSE [k \in keys \cap DOMAIN doc |-> doc[k]]

\* transactions_collection.find_one({"order_id": oid}): first match
RECURSIVE FirstOrderIndex(_, _, _)
FirstOrderIndex(txns, oid, i) ==
    IF i > Len(txns) THEN 0
    ELSE IF "order_id" \in DOMAIN txns[i] /\ txns[i].order_id = oid THEN i
    ELSE FirstOrderIndex(txns, oid, i + 1)

find_order(txns, oid) ==
    LET i == FirstOrderIndex(txns, oid, 1) IN IF i = 0 THEN None ELSE txns[i]

(* --------------------------- notification ------------------------------ *)
\* variant: the provider's error escapes send_payment_notification
send_payment_notification_raises(twilio) ==
    [raised |-> (twilio # "ok"), value |-> TRUE]

\* utils/sms_utils.py: every provider error is caught and turned into False
send_payment_notification(twilio) ==
    [raised |-> FALSE, value |-> (twilio = "ok")]

\* get_parent_by_student_id: None without a student or without parent_phone
get_parent_by_student_id(students, sid) ==
    LET student == find_one(students, sid) IN
    IF student = None THEN None
    ELSE IF "parent_phone" \notin DOMAIN student THEN None
    ELSE [phone |-> student.parent_phone]

\* "if parent and parent.phone: send_payment_notification(...)"
Notify(students, sid, twilio) ==
    LET parent == get_parent_by_student_id(students, sid) IN
    IF parent = None THEN [raised |-> FALSE, sms |-> "skipped"]
    ELSE LET r == send_payment_notification(twilio) IN
         [raised |-> r.raised,
          sms |-> IF r.raised THEN "raised"
                  ELSE IF r.value THEN "sent" ELSE "failed"]

(* ------------------------------ state ---------------------------------- *)
Idle == [pc |-> "idle", op |-> "none", req |-> None, student |-> None,
         vendor |-> None, order |-> None, new_student_balance |-> 0,
         new_vendor_balance |-> 0, student_update |-> None,
         sms |-> "none", resp |-> None]

\* the handler returns or raises: its locals are gone, the response is left
Respond(l, r) ==
    [Idle EXCEPT !.pc = "done", !.op = l.op, !.req = l.req, !.sms = l.sms,
                 !.resp = r]

DB == [students |-> students_collection, vendors |-> vendors_collection,
       transactions |-> transactions_collection, orders |-> razorpay_orders]

Init ==
    /\ students_collection =
         [s \in {"S1"} |-> [student_id |-> "S1", name |-> "Asha",
                            balance |-> InitBalance,
                            wallet_balance |-> 0, password |-> "pw"]]
    /\ vendors_collection =
         [v \in {"V1", "V2"} |->
            IF v = "V1"
            THEN [vendor_id |-> "V1", name |-> "Canteen", upi_id |-> "c@upi",
                  balance |-> InitVendorBalance]
            ELSE [vendor_id |-> "V2", name |-> "Books", upi_id |-> "b@upi"]]
    /\ transactions_collection = <<>>
    /\ razorpay_orders = 0
    /\ proc = [w \in Workers |-> Idle]

(* ------------------------------ errors --------------------------------- *)
HTTPException(code, msg) ==
    [exc |-> "HTTPException", status_code |-> code, detail |-> msg]

\* "except HTTPException as he: raise he" of the three payment handlers
ReraiseHTTP(l, e) == Respond(l, e)

(* ----------------------- process_student_payment ----------------------- *)
PspRequests ==
    [student_id : StudentIds, vendor_id : VendorIds, amount : Amounts,
     password : Passwords]

\* variant: no student balance check
PspFindStudent_nobalance(d, l) ==
    LET student == find_one(d.students, l.req.student_id)
        l1 == [l EXCEPT !.student = Fields(student, {"name", "balance"})]
    IN
    IF student = None
    THEN [d |-> d, l |-> ReraiseHTTP(l1, HTTPException(404, "Student not found"))]
    ELSE IF l.req.password # Get(student, "password", "")
    THEN [d |-> d,
          l |-> ReraiseHTTP(l1, HTTPException(401, "Invalid student password"))]
    ELSE [d |-> d, l |-> [l1 EXCEPT !.pc = "psp_find_vendor"]]

\* lines 334-344: student lookup, password check, balance check
PspFindStudent(d, l) ==
    LET student == find_one(d.students, l.req.student_id)
        l1 == [l EXCEPT !.student = Fields(student, {"name", "balance"})]
    IN
    IF student = None
    THEN [d |-> d, l |-> ReraiseHTTP(l1, HTTPException(404, "Student not found"))]
    ELSE IF l.req.password # Get(student, "password", "")
    THEN [d |-> d,
          l |-> ReraiseHTTP(l1, HTTPException(401, "Invalid student password"))]
    ELSE IF student.balance < l.req.amount
    THEN [d |-> d,
          l |-> ReraiseHTTP(l1, HTTPException(400, "Insufficient balance"))]
    ELSE [d |-> d, l |-> [l1 EXCEPT !.pc = "psp_find_vendor"]]

\* variant: the vendor is credited
NewVendorBalance_credit(vendor, amount) == Get(vendor, "balance", 0) + amount

\* lines 355-356: the two new balances
NewStudentBalance(student, amount) == student.balance - amount
NewVendorBalance(vendor, amount) == Get(vendor, "balance", 0) - amount

\* variant: the student is debited before the vendor balance check
PspFindVendor_writefirst(d, l) ==
    LET vendor == find_one(d.vendors, l.req.vendor_id)
        l1 == [l EXCEPT !.vendor = Fields(vendor, {"name"})]
        sid == l.req.student_id
        nsb == NewStudentBalance(l.student, l.req.amount)
        d1 == [d EXCEPT !.students =
                 update_one(@, sid, SetField(find_one(@, sid), "balance", nsb))]
    IN
    IF vendor = None
    THEN [d |-> d, l |-> ReraiseHTTP(l1, HTTPException(404, "Vendor not found"))]
    ELSE IF Get(vendor, "balance", 0) < l.req.amount
    THEN [d |-> d1,
          l |-> ReraiseHTTP(l1, HTTPException(400, "Insufficient vendor balance"))]
    ELSE [d |-> d,
          l |-> [l1 EXCEPT !.new_student_balance = nsb,
                           !.new_vendor_balance =
                               NewVendorBalance(vendor, l.req.amount),
                           !.pc = "psp_update_student"]]

\* variant: no vendor balance check
PspFindVendor_nocheck(d, l) ==
    LET vendor == find_one(d.vendors, l.req.vendor_id)
        l1 == [l EXCEPT !.vendor = Fields(vendor, {"name"})]
    IN
    IF vendor = None
    THEN [d |-> d, l |-> ReraiseHTTP(l1, HTTPException(404, "Vendor not found"))]
    ELSE [d |-> d,
          l |-> [l1 EXCEPT !.new_student_balance =
                               NewStudentBalance(l.student, l.req.amount),
                           !.new_vendor_balance =
                               NewVendorBalance(vendor, l.req.amount),
                           !.pc = "psp_update_student"]]

\* lines 347-356: vendor lookup, vendor balance check, new balances
PspFindVendor(d, l) ==
    LET vendor == find_one(d.vendors, l.req.vendor_id)
        l1 == [l EXCEPT !.vendor = Fields(vendor, {"name"})]
    IN
    IF vendor = None
    THEN [d |-> d, l |-> ReraiseHTTP(l1, HTTPException(404, "Vendor not found"))]
    ELSE IF Get(vendor, "balance", 0) < l.req.amount
    THEN [d |-> d,
          l |-> ReraiseHTTP(l1, HTTPException(400, "Insufficient vendor balance"))]
    ELSE [d |-> d,
          l |-> [l1 EXCEPT !.new_student_balance =
                               NewStudentBalance(l.student, l.req.amount),
                           !.new_vendor_balance =
                               NewVendorBalance(vendor, l.req.amount),
                           !.pc = "psp_update_student"]]

\* variant: the debit is an atomic $inc of -amount
PspUpdateStudent_inc(d, l) ==
    LET sid == l.req.student_id IN
    [d |-> [d EXCEPT !.students =
              update_one(@, sid,
                  IncField(find_one(@, sid), "balance", 0 - l.req.amount))],
     l |-> [l EXCEPT !.pc = "psp_update_vendor"]]

\* lines 361-364: students_collection.update_one($set balance)
PspUpdateStudent(d, l) ==
    LET sid == l.req.student_id IN
    [d |-> [d EXCEPT !.students =
              update_one(@, sid,
                  SetField(find_one(@, sid), "balance", l.new_student_balance))],
     l |-> [l EXCEPT !.pc = "psp_update_vendor"]]

\* lines 367-370: vendors_collection.update_one($set balance)
PspUpdateVendor(d, l) ==
    LET vid == l.req.vendor_id IN
    [d |-> [d EXCEPT !.vendors =
              update_one(@, vid,
                  SetField(find_one(@, vid), "balance", l.new_vendor_balance))],
     l |-> [l EXCEPT !.pc = "psp_insert"]]

\* lines 373-384: the purchase transaction document
PurchaseTransaction(l) ==
    [student_id |-> l.req.student_id, vendor_id |-> l.req.vendor_id,
     amount |-> l.req.amount, type |-> "purchase", status |-> "completed",
     student_balance |-> l.new_student_balance,
     vendor_balance |-> l.new_vendor_balance]

\* line 385: transactions_collection.insert_one
PspInsert(d, l) ==
    [d |-> [d EXCEPT !.transactions = Append(@, PurchaseTransaction(l))],
     l |-> [l EXCEPT !.pc = "psp_notify"]]

\* lines 388-407: notification inside try/except, then the response
PspNotify(d, l, env) ==
    LET n == Notify(d.students, l.req.student_id, env.twilio) IN
    [d |-> d,
     l |-> Respond([l EXCEPT !.sms = n.sms],
                   [status_code |-> 200, status |-> "success",
                    student_balance |-> l.new_student_balance,
                    vendor_balance |-> l.new_vendor_balance])]

(* ----------------------- create_recharge_order ------------------------- *)
CroRequests == [student_id : StudentIds, vendor_id : VendorIds, amount : Amounts]

\* "except Exception as e" of create_recharge_order (lines 174-176)
InternalServerError(l) ==
    Respond(l, HTTPException(500, "Internal server error"))

\* lines 106-108
CroFindStudent(d, l) ==
    LET student == find_one(d.students, l.req.student_id)
        l1 == [l EXCEPT !.student = Fields(student, {"name"})]
    IN
    IF student = None
    THEN [d |-> d, l |-> ReraiseHTTP(l1, HTTPException(404, "Student not found"))]
    ELSE [d |-> d, l |-> [l1 EXCEPT !.pc = "cro_find_vendor"]]

\* lines 111-113
CroFindVendor(d, l) ==
    LET vendor == find_one(d.vendors, l.req.vendor_id)
        l1 == [l EXCEPT !.vendor = Fields(vendor, {"name"})]
    IN
    IF vendor = None
    THEN [d |-> d, l |-> ReraiseHTTP(l1, HTTPException(404, "Vendor not found"))]
    ELSE [d |-> d, l |-> [l1 EXCEPT !.pc = "cro_create_order"]]

\* line 116: rupees to paise
ToPaise(amount) == amount * 100

\* lines 116-136: client.order.create; the gateway numbers its orders
CroCreateOrder(d, l, env) ==
    IF ~env.razorpay_ok
    THEN [d |-> d,
          l |-> ReraiseHTTP(l, HTTPException(500, "Failed to create payment order"))]
    ELSE [d |-> [d EXCEPT !.orders = @ + 1],
          l |-> [l EXCEPT !.order = [id |-> d.orders + 1,
                                     amount |-> ToPaise(l.req.amount)],
                          !.pc = "cro_insert"]]

\* lines 142-151: the pending recharge document
OrderDoc(l) ==
    [order_id |-> l.order.id, student_id |-> l.req.student_id,
     vendor_id |-> l.req.vendor_id, amount |-> l.req.amount,
     status |-> "pending", type |-> "recharge"]

\* line 153
CroInsert(d, l) ==
    [d |-> [d EXCEPT !.transactions = Append(@, OrderDoc(l))],
     l |-> [l EXCEPT !.pc = "cro_notify"]]

\* lines 156-171: notification outside any local try, then the response
CroNotify(d, l, env) ==
    LET n == Notify(d.students, l.req.student_id, env.twilio) IN
    [d |-> d,
     l |-> IF n.raised THEN InternalServerError([l EXCEPT !.sms = n.sms])
           ELSE Respond([l EXCEPT !.sms = n.sms],
                        [status_code |-> 200, id |-> l.order.id,
                         amount |-> l.order.amount, currency |-> "INR"])]

(* ----------------------- verify_recharge_payment ----------------------- *)
\* HMAC of "order_id|payment_id" under a key
Hmac(key, order_id, payment_id) == <<key, order_id, payment_id>>

\* the payload's signature is made for its own order or for the next one,
\* under the gateway's secret or under another key
VrpRequests ==
    {r \in [razorpay_payment_id : PaymentIds, razorpay_order_id : OrderIds,
            razorpay_signature :
               {Hmac(k, o, p) : k \in Keys, o \in OrderIds, p \in PaymentIds},
            student_id : StudentIds, vendor_id : VendorIds] :
        r.razorpay_signature[2] \in
            {r.razorpay_order_id, (r.razorpay_order_id % MaxTxns) + 1}}

\* variant: the signature is accepted under any key
verify_payment_signature_anykey(params) ==
    \E k \in Keys :
        params.razorpay_signature =
            Hmac(k, params.razorpay_order_id, params.razorpay_payment_id)

\* the signature the gateway issues for a payment of an order
GatewaySignature(order_id, payment_id) == Hmac("key_secret", order_id, payment_id)

\* client.utility.verify_payment_signature: raises unless the signature is
\* the HMAC of the request's own order and payment id under the secret
verify_payment_signature(params) ==
    params.razorpay_signature =
        Hmac("key_secret", params.razorpay_order_id, params.razorpay_payment_id)

\* lines 185-199
VrpVerifySignature(d, l) ==
    IF ~verify_payment_signature(l.req)
    THEN [d |-> d,
          l |-> ReraiseHTTP(l, HTTPException(400, "Payment verification failed"))]
    ELSE [d |-> d, l |-> [l EXCEPT !.pc = "vrp_find_order"]]

\* variant: an order that is already completed is refused
VrpFindOrder_dedup(d, l) ==
    LET order == find_order(d.transactions, l.req.razorpay_order_id)
        l1 == [l EXCEPT !.order = Fields(order, {"amount"})]
    IN
    IF order = None
    THEN [d |-> d, l |-> ReraiseHTTP(l1, HTTPException(404, "Order not found"))]
    ELSE IF order.status = "completed"
    THEN [d |-> d,
          l |-> ReraiseHTTP(l1, HTTPException(400, "Order already completed"))]
    ELSE [d |-> d, l |-> [l1 EXCEPT !.pc = "vrp_find_student"]]

\* lines 202-205
VrpFindOrder(d, l) ==
    LET order == find_order(d.transactions, l.req.razorpay_order_id)
        l1 == [l EXCEPT !.order = Fields(order, {"amount"})]
    IN
    IF order = None
    THEN [d |-> d, l |-> ReraiseHTTP(l1, HTTPException(404, "Order not found"))]
    ELSE [d |-> d, l |-> [l1 EXCEPT !.pc = "vrp_find_student"]]

\* lines 210-212
VrpFindStudent(d, l) ==
    LET student == find_one(d.students, l.req.student_id)
        l1 == [l EXCEPT !.student = Fields(student, {"name"})]
    IN
    IF student = None
    THEN [d |-> d, l |-> ReraiseHTTP(l1, HTTPException(404, "Student not found"))]
    ELSE [d |-> d, l |-> [l1 EXCEPT !.pc = "vrp_find_vendor"]]

\* lines 214-216
VrpFindVendor(d, l) ==
    LET vendor == find_one(d.vendors, l.req.vendor_id)
        l1 == [l EXCEPT !.vendor = Fields(vendor, {"name"})]
    IN
    IF vendor = None
    THEN [d |-> d, l |-> ReraiseHTTP(l1, HTTPException(404, "Vendor not found"))]
    ELSE [d |-> d, l |-> [l1 EXCEPT !.pc = "vrp_inc_student"]]

\* variant: the recharge is added to the purchase balance
VrpIncStudent_balance(d, l) ==
    LET sid == l.req.student_id
        after == IncField(find_one(d.students, sid), "balance", l.order.amount)
    IN
    [d |-> [d EXCEPT !.students = update_one(@, sid, after)],
     l |-> [l EXCEPT !.student_update = Fields(after, {"wallet_balance"}),
                     !.pc = "vrp_inc_vendor"]]

\* lines 219-223: $inc wallet_balance, the updated document is returned
VrpIncStudent(d, l) ==
    LET sid == l.req.student_id
        after == IncField(find_one(d.students, sid), "wallet_balance",
                          l.order.amount)
    IN
    [d |-> [d EXCEPT !.students = update_one(@, sid, after)],
     l |-> [l EXCEPT !.student_update = Fields(after, {"wallet_balance"}),
                     !.pc = "vrp_inc_vendor"]]

\* lines 226-230: $inc balance of the vendor
VrpIncVendor(d, l) ==
    LET vid == l.req.vendor_id
        after == IncField(find_one(d.vendors, vid), "balance", l.order.amount)
    IN
    [d |-> [d EXCEPT !.vendors = update_one(@, vid, after)],
     l |-> [l EXCEPT !.pc = "vrp_update_order"]]

\* lines 236-246: update_one on the first transaction with that order_id
CompleteOrder(txn, payment_id) ==
    SetField(SetField(txn, "status", "completed"), "payment_id", payment_id)

VrpUpdateOrder(d, l) ==
    LET i == FirstOrderIndex(d.transactions, l.req.razorpay_order_id, 1) IN
    [d |-> IF i = 0 THEN d
           ELSE [d EXCEPT !.transactions[i] =
                    CompleteOrder(@, l.req.razorpay_payment_id)],
     l |-> [l EXCEPT !.pc = "vrp_notify"]]

\* lines 249-269: notification inside try/except, then the response
VrpNotify(d, l, env) ==
    LET n == Notify(d.students, l.req.student_id, env.twilio) IN
    [d |-> d,
     l |-> Respond([l EXCEPT !.sms = n.sms],
                   [status_code |-> 200, status |-> "success",
                    new_balance |->
                        Get(l.student_update, "wallet_balance", 0)])]

(* ------------------------- update_parent_phone ------------------------- *)
UppRequests == [student_id : StudentIds, phone : Phones]

\* lines 473-474: "except Exception as e" is the only handler of the try
\* block, and HTTPException is an Exception; the detail is str(e)
ExceptException(l, e) ==
    Respond(l, HTTPException(500, "str(e)"))

\* lines 464-472
UppUpdate(d, l) ==
    LET sid == l.req.student_id
        matched_count == IF sid \in DOMAIN d.students THEN 1 ELSE 0
        students == IF matched_count = 0 THEN d.students
                    ELSE update_one(d.students, sid,
                             SetField(d.students[sid], "parent_phone",
                                      l.req.phone))
    IN
    IF matched_count = 0
    THEN [d |-> [d EXCEPT !.students = students],
          l |-> ExceptException(l, HTTPException(404, "Student not found"))]
    ELSE [d |-> [d EXCEPT !.students = students],
          l |-> Respond(l, [status_code |-> 200,
                            message |->
                                "Parent phone number updated successfully"])]

(* ------------------------------ handlers ------------------------------- *)
\* the next call of the handler a request is in
Step(d, l, env) ==
    CASE l.pc = "psp_find_student" -> PspFindStudent(d, l)
      [] l.pc = "psp_find_vendor" -> PspFindVendor(d, l)
      [] l.pc = "psp_update_student" -> PspUpdateStudent(d, l)
      [] l.pc = "psp_update_vendor" -> PspUpdateVendor(d, l)
      [] l.pc = "psp_insert" -> PspInsert(d, l)
      [] l.pc = "psp_notify" -> PspNotify(d, l, env)
      [] l.pc = "cro_find_student" -> CroFindStudent(d, l)
      [] l.pc = "cro_find_vendor" -> CroFindVendor(d, l)
      [] l.pc = "cro_create_order" -> CroCreateOrder(d, l, env)
      [] l.pc = "cro_insert" -> CroInsert(d, l)
      [] l.pc = "cro_notify" -> CroNotify(d, l, env)
      [] l.pc = "vrp_verify_signature" -> VrpVerifySignature(d, l)
      [] l.pc = "vrp_find_order" -> VrpFindOrder(d, l)
      [] l.pc = "vrp_find_student" -> VrpFindStudent(d, l)
      [] l.pc = "vrp_find_vendor" -> VrpFindVendor(d, l)
      [] l.pc = "vrp_inc_student" -> VrpIncStudent(d, l)
      [] l.pc = "vrp_inc_vendor" -> VrpIncVendor(d, l)
      [] l.pc = "vrp_update_order" -> VrpUpdateOrder(d, l)
      [] l.pc = "vrp_notify" -> VrpNotify(d, l, env)
      [] l.pc = "upp_update" -> UppUpdate(d, l)

\* a handler from its first statement to its response
RECURSIVE Run(_, _, _)
Run(d, l, env) ==
    IF l.pc = "done" THEN [d |-> d, l |-> l]
    ELSE LET r == Step(d, l, env) IN Run(r.d, r.l, env)

FirstPc(op) ==
    CASE op = "psp" -> "psp_find_student"
      [] op = "cro" -> "cro_find_student"
      [] op = "vrp" -> "vrp_verify_signature"
      [] op = "upp" -> "upp_update"

Begin(op, req) == [Idle EXCEPT !.pc = FirstPc(op), !.op = op, !.req = req]

Requests(op) ==
    CASE op = "psp" -> PspRequests
      [] op = "cro" -> CroRequests
      [] op = "vrp" -> VrpRequests
      [] op = "upp" -> UppRequests

InFlight(w) == proc[w].pc \notin {"idle", "done"}

\* the model stops taking requests that could grow the log or a balance
\* past the bounds
Inserting == {w \in Workers : InFlight(w) /\ proc[w].op \in {"psp", "cro"}}
Crediting == {w \in Workers : InFlight(w) /\ proc[w].op = "vrp"}

Accepts(op, req) ==
    CASE op \in {"psp", "cro"} ->
            Len(transactions_collection) + Cardinality(Inserting) < MaxTxns
      [] op = "vrp" ->
            LET room == MaxBalance - MaxAmount * (Cardinality(Crediting) + 1)
                student == find_one(students_collection, req.student_id)
                vendor == find_one(vendors_collection, req.vendor_id)
            IN
            /\ student # None => Get(student, "wallet_balance", 0) <= room
            /\ vendor # None => Get(vendor, "balance", 0) <= room
      [] op = "upp" -> TRUE

Commit(w, r) ==
    /\ students_collection' = r.d.students
    /\ vendors_collection' = r.d.vendors
    /\ transactions_collection' = r.d.transactions
    /\ razorpay_orders' = r.d.orders
    /\ proc' = [proc EXCEPT ![w] = r.l]

\* one request handled from arrival to response
Handle(w, op) ==
    \E req \in Requests(op), env \in Envs :
        /\ Accepts(op, req)
        /\ Commit(w, Run(DB, Begin(op, req), env))

AllIdle == \A u \in Workers : proc[u].pc = "idle"

process_student_payment(w) ==
    /\ AllIdle
    /\ Handle(w, "psp")

create_recharge_order(w) ==
    /\ AllIdle
    /\ Handle(w, "cro")

verify_recharge_payment(w) ==
    /\ AllIdle
    /\ Handle(w, "vrp")

update_parent_phone(w) ==
    /\ AllIdle
    /\ Handle(w, "upp")

\* the response is delivered and the worker takes the next request
Return(w) ==
    /\ proc[w].pc = "done"
    /\ proc' = [proc EXCEPT ![w] = Idle]
    /\ UNCHANGED <<students_collection, vendors_collection,
                   transactions_collection, razorpay_orders>>

\* Spec: a single worker serves the requests one after the other
Server == CHOOSE w \in Workers : TRUE

Next ==
    \/ process_student_payment(Server)
    \/ create_recharge_order(Server)
    \/ verify_recharge_payment(Server)
    \/ update_parent_phone(Server)
    \/ Return(Server)

Spec == Init /\ [][Next]_vars

(* ------------------ several workers, one call at a time ---------------- *)
\* The workers of SpecConc serve the three payment endpoints.
\* A request naming an unknown student or vendor, a wrong password or a bad
\* signature is refused on data that no handler ever changes, whatever the
\* other workers do; the workers of SpecConc take the remaining requests.
Admissible(op, req) ==
    /\ req.student_id \in DOMAIN students_collection
    /\ req.vendor_id \in DOMAIN vendors_collection
    /\ op = "psp" => req.password = students_collection[req.student_id].password
    /\ op = "vrp" => verify_payment_signature(req)

Receive(w) ==
    /\ proc[w].pc = "idle"
    /\ \E op \in {"psp", "cro", "vrp"} :
          \E req \in Requests(op) :
                /\ Accepts(op, req)
                /\ Admissible(op, req)
                /\ proc' = [proc EXCEPT ![w] = Begin(op, req)]
    /\ UNCHANGED <<students_collection, vendors_collection,
                   transactions_collection, razorpay_orders>>

\* the next call of the handler that worker w is in
Advance(w) == \E env \in Envs : Commit(w, Step(DB, proc[w], env))

ProcessStudentPaymentStep(w) ==
    /\ InFlight(w) /\ proc[w].op = "psp"
    /\ Advance(w)

CreateRechargeOrderStep(w) ==
    /\ InFlight(w) /\ proc[w].op = "cro"
    /\ Advance(w)

VerifyRechargePaymentStep(w) ==
    /\ InFlight(w) /\ proc[w].op = "vrp"
    /\ Advance(w)

NextConc ==
    \E w \in Workers :
        \/ Receive(w)
        \/ ProcessStudentPaymentStep(w)
        \/ CreateRechargeOrderStep(w)
        \/ VerifyRechargePaymentStep(w)
        \/ Return(w)

SpecConc == Init /\ [][NextConc]_vars

(* ------------------------------ properties ----------------------------- *)
Done(w, op) == proc[w].pc = "done" /\ proc[w].op = op

\* a step of Spec in which worker w handles one request of endpoint op
Handled(w, op) ==
    proc[w].pc = "idle" /\ proc'[w].pc = "done" /\ proc'[w].op = op

StoreUnchanged ==
    UNCHANGED <<students_collection, vendors_collection,
                transactions_collection>>

\* C1: a successful purchase of amount A stores student balance Bs - A and
\* vendor balance Bv - A (a vendor without a balance counts as 0), appends
\* exactly one transaction with type purchase, status completed and these
\* two values as its snapshot, and returns the same two values.
C1_PurchaseSettles ==
    [][\A w \in Workers :
         (Handled(w, "psp") /\ proc'[w].resp.status_code = 200) =>
           LET req == proc'[w].req
               A == req.amount
               Bs == students_collection[req.student_id].balance
               Bv == Get(vendors_collection[req.vendor_id], "balance", 0)
               n == Len(transactions_collection)
               t == transactions_collection'[n + 1]
           IN
           /\ students_collection'[req.student_id].balance = Bs - A
           /\ "balance" \in DOMAIN vendors_collection'[req.vendor_id]
           /\ vendors_collection'[req.vendor_id].balance = Bv - A
           /\ Len(transactions_collection') = n + 1
           /\ SubSeq(transactions_collection', 1, n) = transactions_collection
           /\ t.type = "purchase" /\ t.status = "completed"
           /\ t.student_id = req.student_id /\ t.vendor_id = req.vendor_id
           /\ t.amount = A
           /\ t.student_balance = Bs - A /\ t.vendor_balance = Bv - A
           /\ proc'[w].resp.student_balance = Bs - A
           /\ proc'[w].resp.vendor_balance = Bv - A]_vars

C1_Witness ==
    \E w \in Workers :
        /\ Done(w, "psp") /\ proc[w].resp.status_code = 200
        /\ proc[w].req.amount > 0
        /\ proc[w].resp.vendor_balance = InitVendorBalance - proc[w].req.amount

\* the pending recharge of an order id, and who it was created for
OrderOf(req) == find_order(transactions_collection, req.razorpay_order_id)

\* the payload carries the signature the gateway issued for its ids
Signed(req) ==
    req.razorpay_signature =
        GatewaySignature(req.razorpay_order_id, req.razorpay_payment_id)

OwnOrder(req) ==
    /\ OrderOf(req) # None
    /\ req.student_id = OrderOf(req).student_id
    /\ req.vendor_id = OrderOf(req).vendor_id

\* C2: create_recharge_order changes no student or vendor document and, when
\* it succeeds, appends exactly one transaction, pending and of type recharge,
\* for the request's student, vendor and amount A; a verification with a
\* valid signature for that order, naming the order's student and vendor,
\* succeeds, adds exactly A to the student's wallet_balance and to the
\* vendor's balance and sets the order's transaction to completed.
C2_RechargeFlow ==
    [][\A w \in Workers :
         /\ Handled(w, "cro") =>
              /\ students_collection' = students_collection
              /\ vendors_collection' = vendors_collection
              /\ proc'[w].resp.status_code = 200 =>
                    transactions_collection' =
                      Append(transactions_collection,
                             [order_id |-> proc'[w].resp.id,
                              student_id |-> proc'[w].req.student_id,
                              vendor_id |-> proc'[w].req.vendor_id,
                              amount |-> proc'[w].req.amount,
                              status |-> "pending", type |-> "recharge"])
         /\ (/\ Handled(w, "vrp")
             /\ Signed(proc'[w].req)
             /\ OwnOrder(proc'[w].req)) =>
              LET req == proc'[w].req
                  A == OrderOf(req).amount
                  after == find_order(transactions_collection',
                                      req.razorpay_order_id)
              IN
              /\ proc'[w].resp.status_code = 200
              /\ Get(students_collection'[req.student_id], "wallet_balance", 0)
                   = Get(students_collection[req.student_id],
                         "wallet_balance", 0) + A
              /\ Get(vendors_collection'[req.vendor_id], "balance", 0)
                   = Get(vendors_collection[req.vendor_id], "balance", 0) + A
              /\ students_collection'[req.student_id].balance
                   = students_collection[req.student_id].balance
              /\ after.status = "completed"
              /\ after.amount = A
              /\ Len(transactions_collection') = Len(transactions_collection)
              /\ proc'[w].resp.new_balance =
                   students_collection'[req.student_id].wallet_balance]_vars

C2_Witness ==
    \E w \in Workers :
        /\ Done(w, "vrp") /\ proc[w].resp.status_code = 200
        /\ OwnOrder(proc[w].req)
        /\ OrderOf(proc[w].req).amount > 0
        /\ OrderOf(proc[w].req).status = "completed"
        /\ proc[w].resp.new_balance = OrderOf(proc[w].req).amount

\* C3: a verification with an invalid signature fails with 400 whatever the
\* other fields of the payload are, one with a valid signature for an
\* order_id that no transaction has fails with 404, and neither changes a
\* student, a vendor or a transaction.
C3_UnverifiedRejected ==
    [][\A w \in Workers :
         Handled(w, "vrp") =>
           /\ ~Signed(proc'[w].req) =>
                /\ proc'[w].resp.status_code = 400
                /\ proc'[w].resp.detail = "Payment verification failed"
                /\ StoreUnchanged
           /\ (Signed(proc'[w].req) /\ OrderOf(proc'[w].req) = None) =>
                /\ proc'[w].resp.status_code = 404
                /\ proc'[w].resp.detail = "Order not found"
                /\ StoreUnchanged]_vars

C3_Witness ==
    \E w \in Workers :
        /\ Done(w, "vrp") /\ proc[w].resp.status_code = 400
        /\ OwnOrder(proc[w].req)
        /\ OrderOf(proc[w].req).status = "pending"
        /\ proc[w].req.razorpay_signature =
              Hmac("forged", proc[w].req.razorpay_order_id,
                   proc[w].req.razorpay_payment_id)

InsufficientBalance(r) ==
    r.status_code = 400 /\ r.detail = "Insufficient balance"

\* C4 as claimed: a purchase by an existing student with amount > balance
\* fails with 400 "Insufficient balance", whatever the vendor.
C4_Original ==
    [][\A w \in Workers :
         (/\ Handled(w, "psp")
          /\ proc'[w].req.student_id \in DOMAIN students_collection
          /\ proc'[w].req.amount >
                students_collection[proc'[w].req.student_id].balance) =>
           InsufficientBalance(proc'[w].resp)]_vars

\* C4 amended: a purchase by an existing student whose stored password is the
\* request's password, with amount > balance, fails with 400 "Insufficient
\* balance", whatever the vendor.
C4_InsufficientBalance ==
    [][\A w \in Workers :
         (/\ Handled(w, "psp")
          /\ proc'[w].req.student_id \in DOMAIN students_collection
          /\ proc'[w].req.password =
                students_collection[proc'[w].req.student_id].password
          /\ proc'[w].req.amount >
                students_collection[proc'[w].req.student_id].balance) =>
           InsufficientBalance(proc'[w].resp)]_vars

C4_Witness ==
    \E w \in Workers :
        /\ Done(w, "psp") /\ InsufficientBalance(proc[w].resp)
        /\ proc[w].req.vendor_id = "VX"
        /\ proc[w].req.amount > students_collection[proc[w].req.student_id].balance

\* C5: a purchase refused by one of the five checks (student not found,
\* password, student balance, vendor not found, vendor balance) changes no
\* student, no vendor and no transaction.
C5_RejectedPurchaseWritesNothing ==
    [][\A w \in Workers :
         (Handled(w, "psp") /\ proc'[w].resp.status_code # 200) =>
           /\ proc'[w].resp.status_code \in {400, 401, 404}
           /\ StoreUnchanged]_vars

C5_Witness ==
    \E w \in Workers :
        /\ Done(w, "psp")
        /\ proc[w].resp.status_code = 400
        /\ proc[w].resp.detail = "Insufficient vendor balance"
        /\ proc[w].req.amount > 0

\* C6: a transaction that is completed stays completed, and a repeated
\* verification of an order that is already completed, with a valid signature
\* and the order's student and vendor, succeeds again and adds the order
\* amount to the wallet_balance and to the vendor balance once more.
C6_CompletedStaysAndReplayCredits ==
    [][/\ \A i \in 1..Len(transactions_collection) :
            /\ i <= Len(transactions_collection')
            /\ transactions_collection[i].status = "completed" =>
                  transactions_collection'[i].status = "completed"
       /\ \A w \in Workers :
            (/\ Handled(w, "vrp")
             /\ Signed(proc'[w].req)
             /\ OwnOrder(proc'[w].req)
             /\ OrderOf(proc'[w].req).status = "completed") =>
              LET req == proc'[w].req
                  A == OrderOf(req).amount
              IN
              /\ proc'[w].resp.status_code = 200
              /\ Get(students_collection'[req.student_id], "wallet_balance", 0)
                   = Get(students_collection[req.student_id],
                         "wallet_balance", 0) + A
              /\ Get(vendors_collection'[req.vendor_id], "balance", 0)
                   = Get(vendors_collection[req.vendor_id], "balance", 0) + A
              /\ transactions_collection' = transactions_collection]_vars

\* one recharge of a positive amount in the log, credited twice
C6_Witness ==
    \E w \in Workers :
        /\ Done(w, "vrp") /\ proc[w].resp.status_code = 200
        /\ OwnOrder(proc[w].req)
        /\ OrderOf(proc[w].req).amount > 0
        /\ Len(transactions_collection) = 1
        /\ proc[w].resp.new_balance = 2 * OrderOf(proc[w].req).amount

\* C7: for the three payment endpoints the response and the stored students,
\* vendors and transactions are the same whether the notification is sent or
\* the provider fails.
C7_NotificationNeverFailsPayment ==
    (\A w \in Workers : proc[w].pc = "idle") =>
      \A op \in {"cro", "vrp", "psp"} :
        \A req \in Requests(op) :
          \A ok \in BOOLEAN :
            \A t \in TwilioOutcomes \ {"ok"} :
              LET sent == Run(DB, Begin(op, req),
                              [razorpay_ok |-> ok, twilio |-> "ok"])
                  r == Run(DB, Begin(op, req), [razorpay_ok |-> ok, twilio |-> t])
              IN
              /\ r.l.resp = sent.l.resp
              /\ r.d = sent.d

C7_Witness ==
    \E w \in Workers :
        /\ Done(w, "cro")
        /\ proc[w].sms = "failed"
        /\ proc[w].resp.status_code = 200
        /\ Len(transactions_collection) = 1

\* C8 as claimed: update_parent_phone for an unknown student_id answers 404
\* "Student not found" and changes no record; for a known one it sets
\* parent_phone and answers 200 with the confirmation message.
C8_UpdateParentPhone ==
    [][\A w \in Workers :
         Handled(w, "upp") =>
           IF proc'[w].req.student_id \notin DOMAIN students_collection
           THEN /\ StoreUnchanged
                /\ proc'[w].resp.status_code = 404
                /\ proc'[w].resp.detail = "Student not found"
           ELSE /\ proc'[w].resp.status_code = 200
                /\ students_collection' =
                     [students_collection EXCEPT
                        ![proc'[w].req.student_id] =
                           SetField(@, "parent_phone", proc'[w].req.phone)]]_vars

\* the purchases of a student in the log, and their total
PurchasesOf(s) ==
    {i \in 1..Len(transactions_collection) :
        /\ transactions_collection[i].type = "purchase"
        /\ transactions_collection[i].student_id = s}

RECURSIVE PurchaseTotal(_, _)
PurchaseTotal(s, n) ==
    IF n = 0 THEN 0
    ELSE PurchaseTotal(s, n - 1)
           + (IF n \in PurchasesOf(s) THEN transactions_collection[n].amount
              ELSE 0)

PurchaseInFlight == \E w \in Workers : InFlight(w) /\ proc[w].op = "psp"

\* C9: the stored balance is overwritten, not decremented: once no purchase
\* is in progress, the balance of a student is the snapshot of one logged
\* purchase (or the initial balance when there is none), so of two purchases
\* that read the same balance only one debit is kept.
C9_BalanceIsOneSnapshot ==
    ~PurchaseInFlight =>
      \A s \in DOMAIN students_collection :
        IF PurchasesOf(s) = {}
        THEN students_collection[s].balance = InitBalance
        ELSE \E i \in PurchasesOf(s) :
               students_collection[s].balance =
                 transactions_collection[i].student_balance

\* two purchases of one student both answered 200 and logged as completed,
\* their total above the balance they both read, one debit lost
C9_Witness ==
    /\ \A w \in Workers :
          /\ Done(w, "psp") /\ proc[w].resp.status_code = 200
          /\ proc[w].req.student_id = "S1"
          /\ proc[w].req.amount > 0
          /\ proc[w].resp.student_balance = InitBalance - proc[w].req.amount
    /\ Cardinality(PurchasesOf("S1")) = Cardinality(Workers)
    /\ \A i \in PurchasesOf("S1") :
          transactions_collection[i].status = "completed"
    /\ PurchaseTotal("S1", Len(transactions_collection)) > InitBalance
    /\ students_collection["S1"].balance #
          InitBalance - PurchaseTotal("S1", Len(transactions_collection))

\* C10: no stored student balance, wallet_balance or vendor balance is
\* negative, in any interleaving of the three payment endpoints.
C10_BalancesNonNegative ==
    /\ \A s \in DOMAIN students_collection :
          /\ students_collection[s].balance >= 0
          /\ Get(students_collection[s], "wallet_balance", 0) >= 0
    /\ \A v \in DOMAIN vendors_collection :
          Get(vendors_collection[v], "balance", 0) >= 0

\* a purchase that brought a balance to zero next to a verified recharge
C10_Witness ==
    \E w, u \in Workers :
        /\ Done(w, "psp") /\ proc[w].resp.status_code = 200
        /\ proc[w].req.amount > 0
        /\ students_collection[proc[w].req.student_id].balance = 0
        /\ Get(vendors_collection[proc[w].req.vendor_id], "balance", 0) = 0
        /\ Done(u, "vrp") /\ proc[u].resp.status_code = 200
        /\ proc[u].resp.new_balance > 0

\* C11 as claimed: a successful verification credits exactly the student and
\* the vendor recorded on the transaction of the verified order_id: these two
\* get the order amount, and no other student or vendor has a balance
\* changed, whatever student_id and vendor_id the payload carries.
C11_CreditsOrdersOwnPair ==
    [][\A w \in Workers :
         (Handled(w, "vrp") /\ proc'[w].resp.status_code = 200) =>
           LET order == OrderOf(proc'[w].req) IN
           /\ \A s \in DOMAIN students_collection \ {order.student_id} :
                /\ students_collection'[s].balance = students_collection[s].balance
                /\ Get(students_collection'[s], "wallet_balance", 0)
                     = Get(students_collection[s], "wallet_balance", 0)
           /\ \A v \in DOMAIN vendors_collection \ {order.vendor_id} :
                Get(vendors_collection'[v], "balance", 0)
                  = Get(vendors_collection[v], "balance", 0)
           /\ Get(students_collection'[order.student_id], "wallet_balance", 0)
                = Get(students_collection[order.student_id],
                      "wallet_balance", 0) + order.amount
           /\ Get(vendors_collection'[order.vendor_id], "balance", 0)
                = Get(vendors_collection[order.vendor_id], "balance", 0)
                    + order.amount]_vars

====
